---- MODULE Spec2Model ----
(***************************************************************************)
(* Model of the hand-driven particle cloud: HandTracker (getData,          *)
(* detectGesture, onResults) and ParticleSystem (setTarget, triggerWave,   *)
(* setExpanded, setAttract, update).                                       *)
(*                                                                         *)
(* Numbers.  JavaScript numbers are modelled in fixed point, one unit =    *)
(* 0.01: a landmark coordinate 0.50 is 50, a world coordinate 4.0 is 400,  *)
(* a colour channel 1.0 is 100.  Products of two fixed-point numbers are   *)
(* divided by 100 and rounded to the nearest unit (RDiv), square roots are *)
(* rounded down (Sqrt).  The clock counts ticks of 500 ms.                 *)
(***************************************************************************)
EXTENDS Integers, Sequences, FiniteSets, TLC

VARIABLES
    results,        \* HandTracker.results: last value delivered to onResults
    lastPalmX,      \* HandTracker.lastPalmX: swipe history
    handData,       \* the value returned by the last getData call
    currentTarget,  \* ParticleSystem.currentTarget
    expanded,       \* ParticleSystem.expanded
    attracted,      \* ParticleSystem.attracted
    isWaving,       \* ParticleSystem.isWaving
    wavePhase,      \* ParticleSystem.wavePhase, in fixed point
    timers,         \* pending setTimeout callbacks: their deadlines, in order
    now,            \* the event loop's clock, in ticks
    positions,      \* geometry.attributes.position.array
    colors,         \* geometry.attributes.aColor.array
    uGlow,          \* material.uniforms.uGlow.value
    uTime,          \* material.uniforms.uTime.value
    scales,         \* geometry.attributes.aScale.array
    templates,      \* ParticleSystem.templates: the generated buffers, by name
    nCalls,         \* number of ParticleSystem calls the host has made so far
    lastCall        \* the operation that produced this state, with its inputs

htVars == <<results, lastPalmX, handData>>

flagVars == <<currentTarget, expanded, attracted>>

waveVars == <<isWaving, wavePhase, timers>>

bufVars == <<positions, colors, uGlow, uTime, scales, templates, nCalls>>

psVars == <<flagVars, waveVars, bufVars, now>>

vars == <<htVars, psVars, lastCall>>

(***************************************************************************)
(* Arithmetic helpers                                                      *)
(***************************************************************************)
Abs(a) == IF a < 0 THEN -a ELSE a

Min(a, b) == IF a < b THEN a ELSE b

Max(a, b) == IF a > b THEN a ELSE b

\* a / b rounded to the nearest integer, halves away from zero (b > 0)
RDiv(a, b) == IF a >= 0 THEN (2 * a + b) \div (2 * b) ELSE -((2 * (-a) + b) \div (2 * b))

RECURSIVE SqrtSearch(_, _, _)
SqrtSearch(n, lo, hi) ==
    IF lo >= hi THEN lo
    ELSE LET mid == (lo + hi + 1) \div 2
         IN  IF mid * mid <= n THEN SqrtSearch(n, mid, hi) ELSE SqrtSearch(n, lo, mid - 1)

\* Math.sqrt on a non-negative integer, rounded down
Sqrt(n) == SqrtSearch(n, 0, Min(n, 46340))

(***************************************************************************)
(* HandTracker: landmark sets                                              *)
(***************************************************************************)
Pt(px, py) == [x |-> px, y |-> py]

\* An open hand, wrist at the bottom: the 21 landmarks of one frame.
BaseHand ==
    [i \in 0..20 |->
        CASE i = 0 -> Pt(50, 90)
          [] i = 1 -> Pt(42, 84)
          [] i = 2 -> Pt(36, 76)
          [] i = 3 -> Pt(30, 70)
          [] i = 4 -> Pt(25, 62)
          [] i = 5 -> Pt(42, 64)
          [] i = 6 -> Pt(40, 50)
          [] i = 7 -> Pt(40, 40)
          [] i = 8 -> Pt(40, 30)
          [] i = 9 -> Pt(50, 70)
          [] i = 10 -> Pt(50, 48)
          [] i = 11 -> Pt(50, 36)
          [] i = 12 -> Pt(50, 25)
          [] i = 13 -> Pt(57, 64)
          [] i = 14 -> Pt(58, 50)
          [] i = 15 -> Pt(58, 40)
          [] i = 16 -> Pt(58, 30)
          [] i = 17 -> Pt(63, 68)
          [] i = 18 -> Pt(66, 55)
          [] i = 19 -> Pt(67, 47)
          [] OTHER -> Pt(68, 40)]

\* Index tip: extended, curled, and exactly as far from the wrist as the PIP.
IndexTips == {Pt(40, 30), Pt(42, 65), Pt(10, 80)}

MiddleTips == {Pt(50, 25), Pt(50, 65)}

RingTips == {Pt(58, 30), Pt(57, 66)}

PinkyTips == {Pt(68, 40), Pt(64, 68)}

\* Thumb tip as an offset from the index tip: 0.03 away, exactly 0.05 away, far.
ThumbOffsets == {Pt(3, 0), Pt(3, 4), Pt(-15, 32)}

ThumbIPs == {Pt(30, 70), Pt(10, 60)}

ThumbMCPs == {Pt(36, 76), Pt(20, 80)}

\* Landmark 9 (palm proxy): x values 0.03, 0.04, 0.07 and 0.11 apart,
\* y values giving a far, a middle and a near palm.
PalmXs == {46, 50, 53, 57}

PalmYs == {85, 70, 40}

GestureHands ==
    { [BaseHand EXCEPT ![8] = it, ![12] = mt, ![16] = rt, ![20] = pt,
                       ![4] = Pt(it.x + th.x, it.y + th.y), ![3] = ip] :
        it \in IndexTips, mt \in MiddleTips, rt \in RingTips, pt \in PinkyTips,
        th \in ThumbOffsets, ip \in ThumbIPs }

PalmHands == { [BaseHand EXCEPT ![9] = Pt(px, py)] : px \in PalmXs, py \in PalmYs }

Hands == GestureHands \cup PalmHands

\* The values the perception provider can deliver: nothing, a result without
\* a landmark list, an empty list, or one hand (maxNumHands is 1).
NullResults == [defined |-> FALSE, hasList |-> FALSE, multiHandLandmarks |-> <<>>]

ResultsOf(lm) == [defined |-> TRUE, hasList |-> TRUE, multiHandLandmarks |-> <<lm>>]

NoHandResults ==
    { NullResults,
      [defined |-> TRUE, hasList |-> FALSE, multiHandLandmarks |-> <<>>],
      [defined |-> TRUE, hasList |-> TRUE, multiHandLandmarks |-> <<>>] }

AllResults == NoHandResults \cup { ResultsOf(lm) : lm \in Hands }

(***************************************************************************)
(* HandTracker.detectGesture                                               *)
(***************************************************************************)
PinchDist == 5

SwipeThreshold == 3

NoPalmX == -1

distSq(p1, p2) == (p1.x - p2.x) * (p1.x - p2.x) + (p1.y - p2.y) * (p1.y - p2.y)

isExtended(landmarks, tipIdx, pipIdx, mcpIdx) ==
    LET wrist == landmarks[0]
    IN  distSq(landmarks[tipIdx], wrist) > distSq(landmarks[pipIdx], wrist)

BoolCount(s) == Len(SelectSeq(s, LAMBDA b : b))

\* Classify with the open test ahead of the pinch test
ClassifyOpenFirst(thumbOpen, openCount, isPinch) ==
    IF openCount = 4 THEN "open"
    ELSE IF isPinch THEN "pinch"
    ELSE IF openCount = 0 THEN "fist"
    ELSE "neutral"

\* Classify with the thumb counted among the fingers of an open hand
ClassifyWithThumb(thumbOpen, openCount, isPinch) ==
    IF isPinch THEN "pinch"
    ELSE IF openCount = 4 /\ thumbOpen THEN "open"
    ELSE IF openCount = 0 THEN "fist"
    ELSE "neutral"

\* The classification from the five finger states and the pinch test.
Classify(thumbOpen, openCount, isPinch) ==
    IF isPinch THEN "pinch"
    ELSE IF openCount = 4 THEN "open"
    ELSE IF openCount = 0 THEN "fist"
    ELSE "neutral"

detectGesture(landmarks) ==
    LET thumbOpen == isExtended(landmarks, 4, 3, 2)
        indexOpen == isExtended(landmarks, 8, 6, 5)
        middleOpen == isExtended(landmarks, 12, 10, 9)
        ringOpen == isExtended(landmarks, 16, 14, 13)
        pinkyOpen == isExtended(landmarks, 20, 18, 17)
        openCount == BoolCount(<<indexOpen, middleOpen, ringOpen, pinkyOpen>>)
        \* Math.sqrt(d) < 0.05 decided on the squares: sqrt is monotone
        isPinch == distSq(landmarks[4], landmarks[8]) < PinchDist * PinchDist
    IN  Classify(thumbOpen, openCount, isPinch)

(***************************************************************************)
(* HandTracker.getData and onResults                                       *)
(***************************************************************************)
\* The absent hand signal (null), with the fields of a present one.
NullSignal ==
    [present |-> FALSE, position |-> [x |-> 0, y |-> 0, z |-> 0],
     proximity |-> 0, gesture |-> "none", swipe |-> "none"]

Proximity(landmarks) ==
    LET dx == landmarks[0].x - landmarks[9].x
        dy == landmarks[0].y - landmarks[9].y
        palmSize == Sqrt(dx * dx + dy * dy)
    IN  Min(Max((palmSize - 10) * 3, 0), 100)

\* SwipeOf with the threshold test written >= instead of >
SwipeOfInclusive(palmX, last) ==
    IF last # NoPalmX
    THEN LET diff == palmX - last
         IN  IF Abs(diff) >= SwipeThreshold
             THEN (IF diff > 0 THEN "left" ELSE "right")
             ELSE "none"
    ELSE "none"

SwipeOf(palmX, last) ==
    IF last # NoPalmX
    THEN LET diff == palmX - last
         IN  IF Abs(diff) > SwipeThreshold
             THEN (IF diff > 0 THEN "left" ELSE "right")
             ELSE "none"
    ELSE "none"

NoHand(r) == ~r.defined \/ ~r.hasList \/ Len(r.multiHandLandmarks) = 0

\* The hand signal getData builds (the raw landmark list it also returns is
\* read by no caller and is left out).
SignalOf(landmarks, last) ==
    [present |-> TRUE,
     position |-> [x |-> (landmarks[8].x - 50) * 2, y |-> (50 - landmarks[8].y) * 2, z |-> 0],
     proximity |-> Proximity(landmarks),
     gesture |-> detectGesture(landmarks),
     swipe |-> SwipeOf(landmarks[9].x, last)]

\* What lastCall records: the operation and its inputs (a template name, a
\* flag, a hand signal), for getData the swipe history it found, and the
\* history the properties speak of: waved counts the update calls made while
\* waving since the latest triggerWave, gap tells that a result without a hand
\* was delivered since getData last returned a hand, fresh that a result was
\* delivered since getData last ran.
NoCall ==
    [op |-> "new", name |-> "", state |-> "", hand |-> NullSignal, prior |-> NoPalmX,
     waved |-> 0, gap |-> FALSE, fresh |-> FALSE]

Call(o) ==
    [NoCall EXCEPT !.op = o, !.waved = lastCall.waved, !.gap = lastCall.gap,
                   !.fresh = lastCall.fresh]

\* this.lastPalmX = palmX
HistoryOfWrist(landmarks) == landmarks[0].x

HistoryOf(landmarks) == landmarks[9].x

onResults(r) ==
    /\ results' = r
    /\ lastCall' = [Call("onResults") EXCEPT !.gap = lastCall.gap \/ NoHand(r), !.fresh = TRUE]
    /\ UNCHANGED <<lastPalmX, handData, psVars>>

\* getData without the reset of the swipe history when no hand is seen
getDataKeepsHistory ==
    /\ IF NoHand(results)
       THEN /\ UNCHANGED lastPalmX
            /\ handData' = NullSignal
       ELSE LET landmarks == results.multiHandLandmarks[1]
            IN  /\ handData' = SignalOf(landmarks, lastPalmX)
                /\ lastPalmX' = HistoryOf(landmarks)
    /\ lastCall' = [Call("getData") EXCEPT !.prior = lastPalmX, !.fresh = FALSE,
                                           !.gap = IF NoHand(results) THEN @ ELSE FALSE]
    /\ UNCHANGED <<results, psVars>>

getData ==
    /\ IF NoHand(results)
       THEN /\ lastPalmX' = NoPalmX
            /\ handData' = NullSignal
       ELSE LET landmarks == results.multiHandLandmarks[1]
            IN  /\ handData' = SignalOf(landmarks, lastPalmX)
                /\ lastPalmX' = HistoryOf(landmarks)
    /\ lastCall' = [Call("getData") EXCEPT !.prior = lastPalmX, !.fresh = FALSE,
                                           !.gap = IF NoHand(results) THEN @ ELSE FALSE]
    /\ UNCHANGED <<results, psVars>>

(***************************************************************************)
(* ParticleSystem: construction                                            *)
(***************************************************************************)
\* Particle count of the model (the constructor's count).
NumParticles == 2

\* Number of random draws Init chooses from.
NumSeeds == 2

\* Bounds on the runs explored: calls made by the host, and the clock.
MaxCalls == 5

MaxTime == 5

\* setTimeout's delay of 1500 ms, in ticks of 500 ms.
WaveDelay == 3

\* The value arithmetic on undefined yields; it is no coordinate.
NaN == -1000000

Particles == 0..(NumParticles - 1)

Slots == 0..(3 * NumParticles - 1)

GeneratedNames == {"random", "sphere", "cube", "saturn"}

\* Property names every object inherits from Object.prototype, and a name
\* that is no property at all.
InheritedNames == {"constructor", "toString"}

TemplateNames == GeneratedNames \cup InheritedNames \cup {"pyramid"}

Pick(table, i) == table[(i % Len(table)) + 1]

\* Draws of the generators, inside the ranges the code draws from.
RandomPts == << <<-520, 310, 45>>, <<600, -600, 0>>, <<130, -75, -410>> >>

SpherePts == << <<240, 320, 0>>, <<0, -400, 0>>, <<-320, 0, 240>> >>

CubePts == << <<250, -250, 100>>, <<-30, 120, -250>>, <<0, 0, 0>> >>

SaturnCorePts == << <<150, 200, 0>>, <<0, 0, -250>> >>

SaturnRingPts == << <<461, 195, 0>>, <<-4, 9, 500>>, <<-553, -233, 0>> >>

\* One point per particle, drawn from a table of draws.
Draws(table, seed) == [i \in 1..NumParticles |-> Pick(table, i - 1 + seed)]

\* The flat Float32Array of count * 3 scalars holding the points pts.
Buffer(pts) == [k \in Slots |-> pts[(k \div 3) + 1][(k % 3) + 1]]

\* saturn: the first floor(count * 0.4) particles on the core, the rest on the ring
SaturnPts ==
    [i \in 1..NumParticles |->
        IF i - 1 < (NumParticles * 4) \div 10
        THEN Pick(SaturnCorePts, i - 1)
        ELSE Pick(SaturnRingPts, i - 1)]

generateTemplates ==
    [n \in GeneratedNames |->
        CASE n = "random" -> Buffer(Draws(RandomPts, 0))
          [] n = "sphere" -> Buffer(Draws(SpherePts, 0))
          [] n = "cube" -> Buffer(Draws(CubePts, 0))
          [] OTHER -> Buffer(SaturnPts)]

InitPts == << <<100, 40, 0>>, <<-480, 300, 20>>, <<240, 320, 0>>, <<150, -20, 60>> >>

InitColors == << <<20, 40, 80>>, <<49, 79, 99>>, <<35, 60, 90>> >>

InitScales == <<0, 50, 99>>

\* initParticles for one draw of Math.random
initParticles(seed) ==
    /\ positions = Buffer(Draws(InitPts, seed))
    /\ colors = Buffer(Draws(InitColors, seed))
    /\ scales = [i \in Particles |-> Pick(InitScales, i + seed)]

\* The constructor: attracted is not assigned, so it starts undefined.
PSInit(seed) ==
    /\ initParticles(seed)
    /\ uTime = 0
    /\ uGlow = 0
    /\ templates = generateTemplates
    /\ currentTarget = "random"
    /\ wavePhase = 0
    /\ isWaving = FALSE
    /\ expanded = "false"
    /\ attracted = "undefined"
    /\ timers = <<>>
    /\ now = 0
    /\ nCalls = 0

HTInit ==
    /\ results = NullResults
    /\ lastPalmX = NoPalmX
    /\ handData = NullSignal
    /\ lastCall = NoCall

(***************************************************************************)
(* ParticleSystem: control calls                                           *)
(***************************************************************************)
\* The host makes one more call.
HostCall == nCalls < MaxCalls /\ nCalls' = nCalls + 1

\* The buffers and uniforms, which only update writes.
dataVars == <<positions, colors, uGlow, uTime, scales, templates>>

\* JavaScript truthiness of a flag value
Truthy(v) == v = "true"

\* What this.templates[templateName] evaluates to: a generated buffer, a
\* member inherited from Object.prototype, or undefined.
TemplateLookup(templateName) ==
    IF templateName \in GeneratedNames THEN "buffer"
    ELSE IF templateName \in InheritedNames THEN "inherited"
    ELSE "undefined"

setTarget(templateName) ==
    /\ HostCall
    /\ IF TemplateLookup(templateName) # "undefined"
       THEN /\ currentTarget' = templateName
            /\ expanded' = "false"
            /\ attracted' = "false"
       ELSE UNCHANGED flagVars
    /\ lastCall' = [Call("setTarget") EXCEPT !.name = templateName]
    /\ UNCHANGED <<htVars, waveVars, dataVars, now>>

\* triggerWave that cancels the callbacks still pending (clearTimeout)
triggerWaveCancelling ==
    /\ HostCall
    /\ now + WaveDelay <= MaxTime
    /\ isWaving' = TRUE
    /\ wavePhase' = 0
    /\ timers' = <<now + WaveDelay>>
    /\ lastCall' = [Call("triggerWave") EXCEPT !.waved = 0]
    /\ UNCHANGED <<htVars, flagVars, dataVars, now>>

triggerWave ==
    /\ HostCall
    /\ now + WaveDelay <= MaxTime
    /\ isWaving' = TRUE
    /\ wavePhase' = 0
    /\ timers' = Append(timers, now + WaveDelay)
    /\ lastCall' = [Call("triggerWave") EXCEPT !.waved = 0]
    /\ UNCHANGED <<htVars, flagVars, dataVars, now>>

\* A callback that leaves isWaving set
WaveCallbackKeepsWaving ==
    /\ timers # <<>>
    /\ Head(timers) <= now
    /\ UNCHANGED isWaving
    /\ timers' = Tail(timers)
    /\ lastCall' = Call("waveCallback")
    /\ UNCHANGED <<htVars, flagVars, bufVars, wavePhase, now>>

\* The callback triggerWave handed to setTimeout, run when its delay is over.
WaveCallback ==
    /\ timers # <<>>
    /\ Head(timers) <= now
    /\ isWaving' = FALSE
    /\ timers' = Tail(timers)
    /\ lastCall' = Call("waveCallback")
    /\ UNCHANGED <<htVars, flagVars, bufVars, wavePhase, now>>

\* Time passes; a callback that is due runs before the clock moves on.
Tick ==
    /\ now < MaxTime
    /\ IF timers = <<>> THEN TRUE ELSE Head(timers) > now
    /\ now' = now + 1
    /\ lastCall' = Call("tick")
    /\ UNCHANGED <<htVars, flagVars, waveVars, bufVars>>

\* setExpanded without the reset of attracted
setExpandedNoClear(state) ==
    /\ HostCall
    /\ expanded' = state
    /\ UNCHANGED attracted
    /\ lastCall' = [Call("setExpanded") EXCEPT !.state = state]
    /\ UNCHANGED <<htVars, currentTarget, waveVars, dataVars, now>>

setExpanded(state) ==
    /\ HostCall
    /\ expanded' = state
    /\ attracted' = IF Truthy(state) THEN "false" ELSE attracted
    /\ lastCall' = [Call("setExpanded") EXCEPT !.state = state]
    /\ UNCHANGED <<htVars, currentTarget, waveVars, dataVars, now>>

\* setAttract without the reset of expanded
setAttractNoClear(state) ==
    /\ HostCall
    /\ attracted' = state
    /\ UNCHANGED expanded
    /\ lastCall' = [Call("setAttract") EXCEPT !.state = state]
    /\ UNCHANGED <<htVars, currentTarget, waveVars, dataVars, now>>

setAttract(state) ==
    /\ HostCall
    /\ attracted' = state
    /\ expanded' = IF Truthy(state) THEN "false" ELSE expanded
    /\ lastCall' = [Call("setAttract") EXCEPT !.state = state]
    /\ UNCHANGED <<htVars, currentTarget, waveVars, dataVars, now>>

(***************************************************************************)
(* ParticleSystem.update                                                   *)
(***************************************************************************)
IsNaN(v) == v = NaN

\* Math.sin of an angle in hundredths of a radian, in hundredths (Bhaskara's
\* rational approximation on a half period of 3.14).
SinHalf(a) == RDiv(1600 * a * (314 - a), 5 * 314 * 314 - 4 * a * (314 - a))

Sin(a) == LET r == a % 628 IN IF r <= 314 THEN SinHalf(r) ELSE -SinHalf(r - 314)

\* A hand signal as the frame loop passes it: cursor in world units.
WorldSignal(px, py, prox) ==
    [present |-> TRUE, position |-> [x |-> px, y |-> py, z |-> 0],
     proximity |-> prox, gesture |-> "neutral", swipe |-> "none"]

\* The hand signals update is called with: none, a cursor close to where the
\* particles start, a cursor far from everything.
HandInputs == {NullSignal, WorldSignal(150, 0, 60), WorldSignal(-900, 600, 100)}

\* TargetGlow with the resting glow at full strength instead of 0
TargetGlowRestsHigh(hd) == IF hd.present /\ hd.proximity # 0 THEN hd.proximity ELSE 100

TargetGlow(hd) == IF hd.present /\ hd.proximity # 0 THEN hd.proximity ELSE 0

\* The phase advanced in every call, waving or not
NextPhaseAlways(waving, phase) == phase + 10

\* if (this.isWaving) this.wavePhase += 0.1
NextPhase(waving, phase) == IF waving THEN phase + 10 ELSE phase

\* The radius test made on the distance instead of its square
InRadiusByDistance(dSq) == Sqrt(dSq) < 400

\* distSq < 4.0
InRadius(dSq) == dSq < 40000

\* repelPos defaulting to the centre, like attractPos, instead of null
RepelPresentAlways(hd) == TRUE

\* repelPos: the cursor, or null
RepelPresent(hd) == hd.present

\* attractPos: the cursor, or the centre
AttractPos(hd) ==
    IF hd.present THEN <<hd.position.x, hd.position.y, hd.position.z>> ELSE <<0, 0, 0>>

\* targetPositions[i3 .. i3 + 2]; a member inherited from Object.prototype
\* has no numeric elements, and arithmetic on undefined gives NaN.
TemplateCoords(i) ==
    IF TemplateLookup(currentTarget) = "buffer"
    THEN [k \in 1..3 |-> templates[currentTarget][3 * i + k - 1]]
    ELSE [k \in 1..3 |-> NaN]

ExpandStep(t, exp) ==
    IF exp THEN [k \in 1..3 |-> IF IsNaN(t[k]) THEN NaN ELSE 2 * t[k]] ELSE t

WaveStep(t, waving, phase) ==
    IF waving
    THEN [t EXCEPT ![2] = IF IsNaN(t[1]) \/ IsNaN(t[2]) THEN NaN
                          ELSE t[2] + 2 * Sin(RDiv(t[1], 2) + phase)]
    ELSE t

AttractStep(t, att, attractPos) ==
    IF att
    THEN [k \in 1..3 |-> IF IsNaN(t[k]) THEN NaN ELSE attractPos[k] + RDiv(t[k], 10)]
    ELSE t

\* The integration step with ease = 0.5
IntegrateHalf(c, t) == IF IsNaN(c) \/ IsNaN(t) THEN NaN ELSE c + RDiv(t - c, 2)

\* positions[k] += (t - c) * ease, ease = 0.05
Integrate(c, t) == IF IsNaN(c) \/ IsNaN(t) THEN NaN ELSE c + RDiv(t - c, 20)

\* if (colors[i3] > 0.5) colors[i3] -= 0.02
DecayRed(red) == IF red > 50 THEN red - 2 ELSE red

\* The repel block: p is the particle's position after integration.
RepelStep(p, red, hd, att) ==
    IF RepelPresent(hd) /\ ~att
    THEN IF \E k \in 1..3 : IsNaN(p[k])
         THEN [pos |-> p, red |-> DecayRed(red)]
         ELSE LET d == <<p[1] - hd.position.x, p[2] - hd.position.y, p[3] - hd.position.z>>
                  dSq == d[1] * d[1] + d[2] * d[2] + d[3] * d[3]
                  dist == Sqrt(dSq)
                  force == RDiv((200 - dist) * 15, 100)
              IN  IF InRadius(dSq)
                  THEN [pos |-> [k \in 1..3 |-> p[k] + RDiv(d[k] * force, 100)], red |-> 100]
                  ELSE [pos |-> p, red |-> DecayRed(red)]
    ELSE [pos |-> p, red |-> red]

\* The target with the wave added before the expansion
TargetOfWaveFirst(i, hd, phase) ==
    AttractStep(ExpandStep(WaveStep(TemplateCoords(i), isWaving, phase), Truthy(expanded)),
                Truthy(attracted), AttractPos(hd))

\* The integration target of particle i: template, expand, wave, attract.
TargetOf(i, hd, phase) ==
    AttractStep(WaveStep(ExpandStep(TemplateCoords(i), Truthy(expanded)), isWaving, phase),
                Truthy(attracted), AttractPos(hd))

\* One pass of the loop body for particle i.
ParticleStep(i, hd, phase) ==
    LET t == TargetOf(i, hd, phase)
        p == [k \in 1..3 |-> Integrate(positions[3 * i + k - 1], t[k])]
    IN  RepelStep(p, colors[3 * i], hd, Truthy(attracted))

\* update doubling the current template in place when expanded, instead of
\* doubling its local copy of the coordinates
updateExpandInPlace(time, hd) ==
    /\ HostCall
    /\ uTime' = time
    /\ uGlow' = uGlow + RDiv(TargetGlow(hd) - uGlow, 10)
    /\ LET phase == NextPhase(isWaving, wavePhase)
           step == [i \in Particles |-> ParticleStep(i, hd, phase)]
       IN  /\ wavePhase' = phase
           /\ positions' = [k \in Slots |-> step[k \div 3].pos[(k % 3) + 1]]
           /\ colors' = [k \in Slots |-> IF k % 3 = 0 THEN step[k \div 3].red ELSE colors[k]]
    /\ templates' = IF Truthy(expanded) /\ TemplateLookup(currentTarget) = "buffer"
                    THEN [templates EXCEPT ![currentTarget] = [k \in Slots |-> 2 * @[k]]]
                    ELSE templates
    /\ lastCall' = [Call("update") EXCEPT !.hand = hd,
                                          !.waved = IF isWaving THEN @ + 1 ELSE @]
    /\ UNCHANGED <<htVars, flagVars, isWaving, timers, scales, now>>

update(time, hd) ==
    /\ HostCall
    /\ uTime' = time
    /\ uGlow' = uGlow + RDiv(TargetGlow(hd) - uGlow, 10)
    /\ LET phase == NextPhase(isWaving, wavePhase)
           step == [i \in Particles |-> ParticleStep(i, hd, phase)]
       IN  /\ wavePhase' = phase
           /\ positions' = [k \in Slots |-> step[k \div 3].pos[(k % 3) + 1]]
           /\ colors' = [k \in Slots |-> IF k % 3 = 0 THEN step[k \div 3].red ELSE colors[k]]
    /\ lastCall' = [Call("update") EXCEPT !.hand = hd,
                                          !.waved = IF isWaving THEN @ + 1 ELSE @]
    /\ UNCHANGED <<htVars, flagVars, isWaving, timers, scales, templates, now>>

\* camera.aspect (window.innerWidth / window.innerHeight), here 1.6, in hundredths
Aspect == 160

\* const vHeight = 12.5
vHeight == 1250

vWidth == RDiv(vHeight * Aspect, 100)

\* The frame loop's coordinate mapping, done in place on the hand signal.
MapToWorld(hd) ==
    IF hd.present
    THEN [hd EXCEPT !.position.x = RDiv(@ * vWidth, 200), !.position.y = RDiv(@ * vHeight, 200)]
    ELSE hd

\* The three behaviour fields as one value, and the control calls as
\* functions on it.
Flags == [currentTarget |-> currentTarget, expanded |-> expanded, attracted |-> attracted]

SetTargetF(f, templateName) ==
    IF TemplateLookup(templateName) # "undefined"
    THEN [currentTarget |-> templateName, expanded |-> "false", attracted |-> "false"]
    ELSE f

SetExpandedF(f, state) ==
    [f EXCEPT !.expanded = state, !.attracted = IF Truthy(state) THEN "false" ELSE @]

SetAttractF(f, state) ==
    [f EXCEPT !.attracted = state, !.expanded = IF Truthy(state) THEN "false" ELSE @]

\* The demo cycle's template for an elapsed time in hundredths of a second
DemoTarget(time) ==
    LET s == time \div 100
    IN  IF s % 15 = 0 /\ s % 30 < 15 THEN "saturn" ELSE "random"

\* The gesture branch without its final else: a neutral gesture makes no call
GestureCallsNoNeutral(f, hd, time) ==
    IF hd.present
    THEN CASE hd.gesture = "open" ->
                SetAttractF(SetExpandedF(IF f.currentTarget # "sphere"
                                         THEN SetTargetF(f, "sphere") ELSE f, "true"), "false")
           [] hd.gesture = "fist" -> SetAttractF(SetExpandedF(f, "false"), "true")
           [] hd.gesture = "pinch" -> SetAttractF(f, "true")
           [] OTHER -> f
    ELSE IF f.currentTarget # DemoTarget(time) THEN SetTargetF(f, DemoTarget(time)) ELSE f

\* The control calls a frame makes after update: by gesture with a hand
\* signal, the demo cycle without one.
GestureCalls(f, hd, time) ==
    IF hd.present
    THEN CASE hd.gesture = "open" ->
                SetAttractF(SetExpandedF(IF f.currentTarget # "sphere"
                                         THEN SetTargetF(f, "sphere") ELSE f, "true"), "false")
           [] hd.gesture = "fist" -> SetAttractF(SetExpandedF(f, "false"), "true")
           [] hd.gesture = "pinch" -> SetAttractF(f, "true")
           [] OTHER -> SetAttractF(SetExpandedF(f, "false"), "false")
    ELSE IF f.currentTarget # DemoTarget(time) THEN SetTargetF(f, DemoTarget(time)) ELSE f

\* Bound on the frames of a run of the frame loop.
MaxFrames == 3

\* The display asks for one more frame.
FrameCall == nCalls < MaxFrames /\ nCalls' = nCalls + 1

\* One frame: getData, the coordinate mapping, update, triggerWave on a
\* swipe, then the control calls.
animate ==
    /\ FrameCall
    /\ LET raw == IF NoHand(results) THEN NullSignal
                  ELSE SignalOf(results.multiHandLandmarks[1], lastPalmX)
           hd == MapToWorld(raw)
           time == now * 50
           phase == NextPhase(isWaving, wavePhase)
           step == [i \in Particles |-> ParticleStep(i, hd, phase)]
           swiped == hd.present /\ hd.swipe # "none"
           f == GestureCalls(Flags, hd, time)
       IN  /\ lastPalmX' = IF NoHand(results) THEN NoPalmX
                           ELSE HistoryOf(results.multiHandLandmarks[1])
           /\ handData' = hd
           /\ uTime' = time
           /\ uGlow' = uGlow + RDiv(TargetGlow(hd) - uGlow, 10)
           /\ positions' = [k \in Slots |-> step[k \div 3].pos[(k % 3) + 1]]
           /\ colors' = [k \in Slots |-> IF k % 3 = 0 THEN step[k \div 3].red ELSE colors[k]]
           /\ isWaving' = (swiped \/ isWaving)
           /\ wavePhase' = IF swiped THEN 0 ELSE phase
           /\ timers' = IF swiped THEN Append(timers, now + WaveDelay) ELSE timers
           /\ currentTarget' = f.currentTarget
           /\ expanded' = f.expanded
           /\ attracted' = f.attracted
           /\ lastCall' = [Call("animate") EXCEPT
                              !.hand = hd, !.prior = lastPalmX, !.fresh = FALSE,
                              !.gap = IF hd.present THEN FALSE ELSE @,
                              !.waved = IF swiped THEN 0 ELSE IF isWaving THEN @ + 1 ELSE @]
    /\ UNCHANGED <<results, scales, templates, now>>

\* The results delivered to the frame loop: no hand, an open hand, a fist, a
\* hand with one finger curled, and a pinch with the palm 0.07 further right.
LoopHands ==
    { BaseHand,
      [BaseHand EXCEPT ![8] = Pt(42, 65), ![12] = Pt(50, 65), ![16] = Pt(57, 66), ![20] = Pt(64, 68)],
      [BaseHand EXCEPT ![8] = Pt(42, 65)],
      [BaseHand EXCEPT ![4] = Pt(43, 30), ![9] = Pt(57, 70)] }

LoopResults ==
    { [defined |-> TRUE, hasList |-> TRUE, multiHandLandmarks |-> <<>>] }
        \cup { ResultsOf(lm) : lm \in LoopHands }

(***************************************************************************)
(* Specifications                                                          *)
(***************************************************************************)
FlagInputs == {"true", "false"}

\* The hand tracker alone: results arrive, the frame loop reads them.
InitHT == HTInit /\ PSInit(0)

NextHT ==
    \/ \E r \in AllResults : onResults(r)
    \/ getData

SpecHT == InitHT /\ [][NextHT]_vars

\* The particle system under any host that makes its calls in one burst,
\* before any deferred callback is due.
InitPS == HTInit /\ \E seed \in 0..(NumSeeds - 1) : PSInit(seed)

NextPS ==
    \/ \E n \in TemplateNames : setTarget(n)
    \/ triggerWave
    \/ \E s \in FlagInputs : setExpanded(s)
    \/ \E s \in FlagInputs : setAttract(s)
    \/ \E hd \in HandInputs : update(now * 50, hd)

SpecPS == InitPS /\ [][NextPS]_vars

\* The particle system over time: the host's calls interleaved with the
\* clock and the deferred callbacks.
InitWave == HTInit /\ PSInit(0)

NextWave ==
    \/ triggerWave
    \/ WaveCallback
    \/ Tick
    \/ setTarget("sphere")
    \/ setExpanded("true")
    \/ setAttract("true")
    \/ update(now * 50, NullSignal)

SpecWave == InitWave /\ [][NextWave]_vars

\* The same, with update also called with a cursor near the particles.
NextFrame ==
    \/ NextWave
    \/ update(now * 50, WorldSignal(150, 0, 60))

SpecFrame == InitWave /\ [][NextFrame]_vars

\* The event loop runs a due callback, and time does not stop.
FairWave == SpecWave /\ WF_vars(WaveCallback) /\ WF_vars(Tick)

\* The frame loop: the perception provider delivers results, frames run,
\* time passes and due callbacks run.
InitLoop == HTInit /\ PSInit(0)

NextLoop ==
    \/ \E r \in LoopResults : onResults(r)
    \/ animate
    \/ WaveCallback
    \/ Tick

SpecLoop == InitLoop /\ [][NextLoop]_vars

(***************************************************************************)
(* Claims                                                                  *)
(***************************************************************************)
\* C1: setTarget(name) is a no-op for every name that is not one of the four
\* generated templates, names inherited from Object.prototype included:
\* currentTarget, expanded and attracted are unchanged, and the template the
\* next update reads is still a generated buffer.
C1_UnknownNameIsNoOp ==
    [][(lastCall'.op = "setTarget" /\ lastCall'.name \notin GeneratedNames)
          => (UNCHANGED flagVars /\ TemplateLookup(currentTarget') = "buffer")]_vars

\* C2: every triggerWave resets the phase, sets isWaving and appends one
\* callback due WaveDelay after the call, keeping those already pending; a
\* callback runs exactly when it is due and clears isWaving; so when a later
\* triggerWave is still pending at that moment, the wave it started ends
\* less than WaveDelay after it was triggered.
C2_EarlierCallbackEndsNewerWave ==
    [][/\ lastCall'.op = "triggerWave"
            => (wavePhase' = 0 /\ isWaving' /\ timers' = Append(timers, now + WaveDelay))
       /\ lastCall'.op = "waveCallback"
            => (now = Head(timers) /\ ~isWaving' /\ timers' = Tail(timers))
       /\ (lastCall'.op = "waveCallback" /\ Len(timers) > 1
              /\ timers[Len(timers)] > Head(timers))
            => now - (timers[Len(timers)] - WaveDelay) < WaveDelay]_vars

\* C2 witness: a callback has just ended the wave although a callback of a
\* later triggerWave is pending and not yet due.
C2_Witness ==
    /\ lastCall.op = "waveCallback"
    /\ ~isWaving
    /\ timers # <<>>
    /\ Head(timers) > now

\* C3: every triggerWave sets isWaving and adds exactly one pending callback;
\* only the callback's own run removes one (nothing cancels); isWaving turns
\* true only in triggerWave; with no callback pending isWaving is false; and
\* if due callbacks run and time passes, eventually no callback is pending
\* and isWaving stays false.
C3_WaveAlwaysEnds ==
    /\ [](timers = <<>> => ~isWaving)
    /\ [][/\ lastCall'.op = "triggerWave"
                => (isWaving' /\ Len(timers') = Len(timers) + 1)
          /\ Len(timers') < Len(timers)
                => (lastCall'.op = "waveCallback" /\ timers' = Tail(timers))
          /\ Len(timers') >= Len(timers)
                => SubSeq(timers', 1, Len(timers)) = timers
          /\ (~isWaving /\ isWaving') => lastCall'.op = "triggerWave"]_vars
    /\ <>[](~isWaving /\ timers = <<>>)

\* C3 witness: the last pending callback has run after a wave that update
\* calls advanced, and isWaving is false.
C3_Witness ==
    /\ lastCall.op = "waveCallback"
    /\ timers = <<>>
    /\ ~isWaving
    /\ wavePhase > 0

\* C4 (as claimed): in an update call without a hand signal neither repulsion
\* nor attraction is applied: every coordinate is integrated toward the
\* template coordinate after expand and wave, and no colour changes.
C4_NoHandNoAttraction ==
    [][(lastCall'.op = "update" /\ ~lastCall'.hand.present)
          => /\ colors' = colors
             /\ \A i \in Particles : \A k \in 1..3 :
                    LET t == WaveStep(ExpandStep(TemplateCoords(i), expanded = "true"),
                                      isWaving, wavePhase')
                    IN  positions'[3 * i + k - 1] = Integrate(positions[3 * i + k - 1], t[k])]_vars

\* C4 (amended): in an update call without a hand signal no repulsion is
\* applied (no colour changes, no displacement beyond the integration step),
\* but attraction is: with attracted set every coordinate is integrated
\* toward 0.1 times the template coordinate after expand and wave (the
\* attract point is the origin), otherwise toward that coordinate itself.
C4_NoHandAttractsToOrigin ==
    [][(lastCall'.op = "update" /\ ~lastCall'.hand.present)
          => /\ colors' = colors
             /\ \A i \in Particles : \A k \in 1..3 :
                    LET t == WaveStep(ExpandStep(TemplateCoords(i), expanded = "true"),
                                      isWaving, wavePhase')
                        goal == IF attracted = "true" /\ ~IsNaN(t[k])
                                THEN 0 + RDiv(t[k], 10)
                                ELSE t[k]
                    IN  positions'[3 * i + k - 1] = Integrate(positions[3 * i + k - 1], goal)]_vars

\* C4 witness: an update without a hand signal has run with attracted set
\* during a wave.
C4_Witness ==
    /\ lastCall.op = "update"
    /\ ~lastCall.hand.present
    /\ attracted = "true"
    /\ isWaving
    /\ wavePhase > 0

\* C5: a getData call that sees no hand returns null and clears the swipe
\* history, and a call that returns a hand signal when the previous call
\* returned null (or there was none) reports swipe none.
C5_FirstFrameNoSwipe ==
    [][lastCall'.op = "getData"
          => /\ NoHand(results) => (handData' = NullSignal /\ lastPalmX' = NoPalmX)
             /\ ~NoHand(results) => handData'.present
             /\ (~handData.present /\ handData'.present) => handData'.swipe = "none"]_vars

\* C5 witness: getData found no swipe history and returned a hand signal
\* whose palm is not where the model's first hand has it.
C5_Witness ==
    /\ lastCall.op = "getData"
    /\ lastCall.prior = NoPalmX
    /\ handData.present
    /\ handData.swipe = "none"
    /\ lastPalmX = 57

\* C6: with swipe history h and palm x px, getData reports left if
\* px - h > 0.03, right if px - h < -0.03 and none otherwise, and the history
\* becomes px in every case.
C6_SwipeThreshold ==
    (lastCall.op = "getData" /\ handData.present)
        => LET px == results.multiHandLandmarks[1][9].x
               h == lastCall.prior
           IN  /\ lastPalmX = px
               /\ h # NoPalmX =>
                     handData.swipe = IF px - h > 3 THEN "left"
                                      ELSE IF px - h < -3 THEN "right"
                                      ELSE "none"

\* C6 witness: the palm moved by exactly 0.03 and no swipe fired.
C6_Witness ==
    /\ lastCall.op = "getData"
    /\ lastCall.prior = 50
    /\ lastPalmX = 53
    /\ handData.present
    /\ handData.swipe = "none"

\* C7: the gesture getData reports for a landmark set is pinch if thumb tip
\* and index tip are less than 0.05 apart, else open if index, middle, ring
\* and pinky tips are all farther from the wrist than their PIPs, else fist if
\* none is, else neutral.
C7_GestureOrder ==
    (lastCall.op = "getData" /\ handData.present)
        => LET lm == results.multiHandLandmarks[1]
               sq(a, b) == (lm[a].x - lm[b].x) * (lm[a].x - lm[b].x)
                           + (lm[a].y - lm[b].y) * (lm[a].y - lm[b].y)
               open == { f \in {<<8, 6>>, <<12, 10>>, <<16, 14>>, <<20, 18>>} :
                           sq(f[1], 0) > sq(f[2], 0) }
           IN  handData.gesture = IF sq(4, 8) < 25 THEN "pinch"
                                  ELSE IF Cardinality(open) = 4 THEN "open"
                                  ELSE IF Cardinality(open) = 0 THEN "fist"
                                  ELSE "neutral"

\* C7 witness: a hand with all four fingers extended and thumb tip on the
\* index tip was classified pinch.
C7_Witness ==
    /\ lastCall.op = "getData"
    /\ handData.present
    /\ handData.gesture = "pinch"
    /\ LET lm == results.multiHandLandmarks[1]
       IN  \A f \in {<<8, 6>>, <<12, 10>>, <<16, 14>>, <<20, 18>>} :
              isExtended(lm, f[1], f[2], 0)

\* C8: the gesture getData reports is the gesture of every landmark set that
\* differs from the one it read only in thumb IP (3) and thumb MCP (2).
C8_ThumbIgnored ==
    (lastCall.op = "getData" /\ handData.present)
        => LET lm == results.multiHandLandmarks[1]
           IN  \A ip \in ThumbIPs : \A mcp \in ThumbMCPs :
                  detectGesture([lm EXCEPT ![3] = ip, ![2] = mcp]) = handData.gesture

\* C8 witness: a hand was classified open whose thumb does not count as
\* extended, and moving its thumb IP makes the thumb count as extended.
C8_Witness ==
    /\ lastCall.op = "getData"
    /\ handData.present
    /\ handData.gesture = "open"
    /\ LET lm == results.multiHandLandmarks[1]
       IN  /\ ~isExtended(lm, 4, 3, 2)
           /\ \E ip \in ThumbIPs : isExtended([lm EXCEPT ![3] = ip], 4, 3, 2)

\* C9: setTarget of a generated name sets currentTarget and sets expanded and
\* attracted to false; setExpanded(s) sets expanded to s and sets attracted
\* to false only if s is true; setAttract(s) sets attracted to s and sets
\* expanded to false only if s is true; none changes isWaving or wavePhase,
\* and the two setters leave currentTarget alone.
C9_ControlCallEffects ==
    [][/\ (lastCall'.op = "setTarget" /\ lastCall'.name \in GeneratedNames)
            => /\ currentTarget' = lastCall'.name
               /\ expanded' = "false"
               /\ attracted' = "false"
       /\ lastCall'.op = "setExpanded"
            => /\ expanded' = lastCall'.state
               /\ attracted' = IF lastCall'.state = "true" THEN "false" ELSE attracted
               /\ currentTarget' = currentTarget
       /\ lastCall'.op = "setAttract"
            => /\ attracted' = lastCall'.state
               /\ expanded' = IF lastCall'.state = "true" THEN "false" ELSE expanded
               /\ currentTarget' = currentTarget
       /\ lastCall'.op \in {"setTarget", "setExpanded", "setAttract"}
            => UNCHANGED <<isWaving, wavePhase>>]_vars

\* C9 witness: setExpanded(false) has run during a wave and attracted is
\* still true.
C9_Witness ==
    /\ lastCall.op = "setExpanded"
    /\ lastCall.state = "false"
    /\ attracted = "true"
    /\ isWaving

\* C10: in every update call, every particle whose red channel exceeds 0.5
\* has it decreased by 0.02, whether or not repulsion fired, a cursor is
\* present or attracted is set.
C10_RedAlwaysDecays ==
    [][lastCall'.op = "update"
          => \A i \in Particles :
                colors[3 * i] > 50 => colors'[3 * i] = colors[3 * i] - 2]_vars

\* C11: in an update call the integration target of each particle is the
\* template coordinate, doubled on all three axes if expanded, then with
\* 2 sin(tx / 2 + phase) added to ty if waving (tx already doubled), then
\* replaced by attractPos + 0.1 times that if attracted; every particle that
\* repulsion leaves alone is integrated toward it, and with expanded set,
\* template sphere and neither wave nor attraction the target lies at radius
\* 8 from the centre.
C11_TargetOrder ==
    [][lastCall'.op = "update"
          => \A i \in Particles :
                LET hd == lastCall'.hand
                    tpl == [k \in 1..3 |-> IF currentTarget \in GeneratedNames
                                           THEN templates[currentTarget][3 * i + k - 1]
                                           ELSE NaN]
                    e == IF expanded = "true"
                         THEN [k \in 1..3 |-> IF IsNaN(tpl[k]) THEN NaN ELSE 2 * tpl[k]]
                         ELSE tpl
                    w == IF isWaving
                         THEN [e EXCEPT ![2] = IF IsNaN(e[1]) THEN NaN
                                               ELSE e[2] + 2 * Sin(RDiv(e[1], 2) + wavePhase')]
                         ELSE e
                    c == IF hd.present
                         THEN <<hd.position.x, hd.position.y, hd.position.z>>
                         ELSE <<0, 0, 0>>
                    goal == IF attracted = "true"
                            THEN [k \in 1..3 |-> IF IsNaN(w[k]) THEN NaN
                                                 ELSE c[k] + RDiv(w[k], 10)]
                            ELSE w
                    p == [k \in 1..3 |->
                            IF IsNaN(goal[k]) \/ IsNaN(positions[3 * i + k - 1]) THEN NaN
                            ELSE positions[3 * i + k - 1]
                                 + RDiv(goal[k] - positions[3 * i + k - 1], 20)]
                    moved == [k \in 1..3 |-> positions'[3 * i + k - 1]]
                IN  /\ moved = p \/ (hd.present /\ attracted # "true" /\ colors'[3 * i] = 100)
                    /\ (expanded = "true" /\ currentTarget = "sphere" /\ ~isWaving)
                          => goal[1] * goal[1] + goal[2] * goal[2] + goal[3] * goal[3]
                                = 800 * 800]_vars

\* C11 witness: update has run during a wave with expanded set and template
\* sphere, and the first particle moved toward the doubled, waved target.
C11_Witness ==
    /\ lastCall.op = "update"
    /\ expanded = "true"
    /\ currentTarget = "sphere"
    /\ isWaving
    /\ wavePhase = 10
    /\ positions[0] > 100

\* C12: an update call without a hand signal and outside a wave moves every
\* coordinate to pos + (target - pos) * 0.05: the distance left to the target
\* is 0.95 times the distance before (to the rounding of one step), it keeps
\* its sign and does not grow, so the target is never overshot, and a
\* coordinate at its target stays there.
C12_GeometricApproach ==
    [][(lastCall'.op = "update" /\ ~lastCall'.hand.present /\ ~isWaving)
          => \A i \in Particles : \A k \in 1..3 :
                LET goal == TargetOf(i, lastCall'.hand, wavePhase)[k]
                    pos == positions[3 * i + k - 1]
                    rem == goal - pos
                    left == goal - positions'[3 * i + k - 1]
                IN  IF IsNaN(goal) \/ IsNaN(pos)
                    THEN IsNaN(positions'[3 * i + k - 1])
                    ELSE /\ positions'[3 * i + k - 1] = pos + RDiv(rem, 20)
                         /\ Abs(20 * left - 19 * rem) <= 10
                         /\ left * rem >= 0
                         /\ Abs(left) <= Abs(rem)
                         /\ rem = 0 => left = 0]_vars

\* C12 witness: a second update in a row without a hand signal has run toward
\* the sphere template; the first particle's x is on its way from 1.00 to 2.40
\* and its z rests at its target 0.
C12_Witness ==
    /\ lastCall.op = "update"
    /\ ~lastCall.hand.present
    /\ ~isWaving
    /\ currentTarget = "sphere"
    /\ expanded = "false"
    /\ attracted = "false"
    /\ positions[0] = 114
    /\ positions[2] = 0

\* C13: every update call sets glow to glow + (p - glow) * 0.1, p being the
\* hand signal's proximity, or 0 without a hand signal; glow stays within
\* [0, 1], and an update without a hand signal never increases it and leaves
\* it at 0 if it was 0.
C13_GlowSmoothing ==
    /\ [](0 <= uGlow /\ uGlow <= 100)
    /\ [][lastCall'.op = "update"
             => LET hd == lastCall'.hand
                    p == IF hd.present THEN hd.proximity ELSE 0
                IN  /\ uGlow' = uGlow + RDiv(p - uGlow, 10)
                    /\ ~hd.present => (uGlow' <= uGlow /\ (uGlow = 0 => uGlow' = 0))]_vars

\* C13 witness: glow raised by updates with a hand has decayed in an update
\* without one and is still above 0.
C13_Witness ==
    /\ lastCall.op = "update"
    /\ ~lastCall.hand.present
    /\ uGlow > 10
    /\ uGlow < 19

\* C14: phase changes only in triggerWave, which resets it to 0, and in
\* update, which adds exactly 0.1 when waving is true at that call and leaves
\* it alone otherwise; so phase is always 0.1 times the number of update calls
\* made while waving since the latest triggerWave, whatever time has passed,
\* and it is frozen once the callback has cleared waving.
C14_PhasePerCall ==
    /\ [](wavePhase = 10 * lastCall.waved)
    /\ [][/\ lastCall'.op = "triggerWave" => wavePhase' = 0
          /\ lastCall'.op = "update"
                => wavePhase' = IF isWaving THEN wavePhase + 10 ELSE wavePhase
          /\ lastCall'.op \notin {"triggerWave", "update"} => wavePhase' = wavePhase
          /\ (~isWaving /\ ~isWaving') => wavePhase' = wavePhase]_vars

\* C14 witness: update has run after the last callback cleared waving, time
\* has passed since the wave, and phase still counts the two updates made
\* during the wave.
C14_Witness ==
    /\ lastCall.op = "update"
    /\ ~isWaving
    /\ timers = <<>>
    /\ now > WaveDelay
    /\ lastCall.waved = 2
    /\ wavePhase = 20

\* C15: in an update call repulsion acts on a particle exactly if a cursor is
\* present, attracted is false and the squared distance from the particle's
\* position after this call's integration step to the cursor is below 4.0:
\* then the particle is pushed along the vector from the cursor to it by
\* (2.0 - distance) * 0.15 times that vector and its red channel is set to
\* 1.0; otherwise its new position is the integration step's result.
C15_RepulsionCondition ==
    [][lastCall'.op = "update"
          => \A i \in Particles :
                LET hd == lastCall'.hand
                    t == TargetOf(i, hd, wavePhase')
                    p == [k \in 1..3 |-> Integrate(positions[3 * i + k - 1], t[k])]
                    isNum == \A k \in 1..3 : ~IsNaN(p[k])
                    d == <<p[1] - hd.position.x, p[2] - hd.position.y, p[3] - hd.position.z>>
                    dSq == d[1] * d[1] + d[2] * d[2] + d[3] * d[3]
                    push == RDiv((200 - Sqrt(dSq)) * 15, 100)
                    moved == [k \in 1..3 |-> positions'[3 * i + k - 1]]
                IN  IF hd.present /\ attracted # "true" /\ isNum /\ dSq < 4 * 100 * 100
                    THEN /\ moved = [k \in 1..3 |-> p[k] + RDiv(d[k] * push, 100)]
                         /\ \A k \in 1..3 : (moved[k] - p[k]) * d[k] >= 0
                         /\ colors'[3 * i] = 100
                    ELSE /\ moved = p
                         /\ colors'[3 * i] <= colors[3 * i]]_vars

\* C15 witness: update has run with a cursor and attracted false; the first
\* particle was pushed and marked, the second stayed unmarked.
C15_Witness ==
    /\ lastCall.op = "update"
    /\ lastCall.hand.present
    /\ attracted # "true"
    /\ colors[0] = 100
    /\ colors[3] < 100
    /\ positions[0] < 69

\* C16: update leaves currentTarget, expanded, attracted, waving, the scale
\* buffer and the templates unchanged, and phase too unless waving; no
\* operation writes a template, and every buffer keeps the length it was
\* constructed with.
C16_UpdateFrame ==
    [][/\ lastCall'.op = "update"
            => /\ UNCHANGED <<currentTarget, expanded, attracted, isWaving, scales, templates>>
               /\ ~isWaving => wavePhase' = wavePhase
       /\ templates' = templates
       /\ DOMAIN templates' = GeneratedNames
       /\ \A n \in GeneratedNames : DOMAIN templates'[n] = Slots
       /\ DOMAIN positions' = Slots
       /\ DOMAIN colors' = Slots
       /\ DOMAIN scales' = Particles]_vars

\* C16 witness: update has run with a cursor during a wave with expanded set,
\* and moved and marked a particle.
C16_Witness ==
    /\ lastCall.op = "update"
    /\ lastCall.hand.present
    /\ expanded = "true"
    /\ isWaving
    /\ colors[0] = 100
    /\ uGlow > 0

\* C17: under any interleaving of onResults and getData, if a result without
\* a hand was delivered since getData last returned a hand signal, the getData
\* call that reads the next hand result reports swipe none.
C17_GapClearsHistory ==
    [][(lastCall'.op = "getData" /\ lastCall.gap /\ handData'.present)
          => handData'.swipe = "none"]_vars

\* C18: expanded and attracted are never both true, in the initial state and
\* after every sequence of calls.
C18_ExpandedExcludesAttracted == ~(Truthy(expanded) /\ Truthy(attracted))

\* C18 witness: setAttract(true) has run as the fourth call or later, with the
\* sphere template current, and expanded is false.
C18_Witness ==
    /\ lastCall.op = "setAttract"
    /\ lastCall.state = "true"
    /\ attracted = "true"
    /\ expanded = "false"
    /\ currentTarget = "sphere"
    /\ nCalls > 3

\* C19: at the end of a frame with a hand signal the flags follow from that
\* frame's gesture alone: open gives template sphere, expanded true, attracted
\* false; fist and pinch give expanded false, attracted true; any other
\* gesture gives both false. The frame's update ran with the flags as they
\* were before. A frame without a hand signal keeps both flags unless the demo
\* cycle changes the template, which resets them.
C19_GestureSetsFlags ==
    [][lastCall'.op = "animate"
          => LET hd == handData'
                 g == hd.gesture
             IN  /\ hd = lastCall'.hand
                 /\ (hd.present /\ g = "open")
                       => (currentTarget' = "sphere" /\ expanded' = "true" /\ attracted' = "false")
                 /\ (hd.present /\ g \in {"fist", "pinch"})
                       => (expanded' = "false" /\ attracted' = "true")
                 /\ (hd.present /\ g \notin {"open", "fist", "pinch"})
                       => (expanded' = "false" /\ attracted' = "false")
                 /\ (hd.present /\ g # "open") => currentTarget' = currentTarget
                 /\ ~hd.present
                       => IF currentTarget' # currentTarget
                          THEN expanded' = "false" /\ attracted' = "false"
                          ELSE expanded' = expanded /\ attracted' = attracted
                 /\ \A i \in Particles :
                       [k \in 1..3 |-> positions'[3 * i + k - 1]]
                          = ParticleStep(i, hd, NextPhase(isWaving, wavePhase)).pos]_vars

\* C19 witness: a frame has read a fist after an earlier frame read an open
\* hand (the template is sphere): attracted is set and expanded cleared.
C19_Witness ==
    /\ lastCall.op = "animate"
    /\ handData.present
    /\ handData.gesture = "fist"
    /\ currentTarget = "sphere"
    /\ attracted = "true"
    /\ expanded = "false"

\* C20: a frame that runs when no result was delivered since the previous
\* getData finds the palm where the history has it, reports swipe none and
\* does not call triggerWave; so a frame adds at most one wave callback, and
\* only when a result was delivered since the frame before.
C20_OneSwipePerResult ==
    [][lastCall'.op = "animate"
          => /\ (~lastCall.fresh /\ handData'.present)
                   => /\ lastCall'.prior = results.multiHandLandmarks[1][9].x
                      /\ handData'.swipe = "none"
             /\ ~lastCall.fresh => timers' = timers
             /\ timers' # timers
                   => /\ timers' = Append(timers, now + WaveDelay)
                      /\ handData'.swipe # "none"
                      /\ lastCall.fresh]_vars

\* C20 witness: a second frame in a row has read the same pinch, whose palm
\* is 0.07 from where the open hand had it; the wave the first of the two
\* frames triggered is still the only one pending.
C20_Witness ==
    /\ lastCall.op = "animate"
    /\ ~lastCall.fresh
    /\ handData.present
    /\ handData.gesture = "pinch"
    /\ handData.swipe = "none"
    /\ lastCall.prior = 57
    /\ Len(timers) = 1
    /\ isWaving
    /\ wavePhase = 10

====
